---- MODULE Spec2Model ----
(***************************************************************************)
(* exelvi.js: discordTimestamps, numbers and colors (src/index.ts), and    *)
(* the earlier discordTimestamps without format validation                 *)
(* (src/unnamed/part_000).                                                 *)
(*                                                                         *)
(* JavaScript values are carried as tagged records [t, v]:                 *)
(*   t = "int"       an integer number, v the integer                      *)
(*   t = "frac"      a non-integer number n/d, v = <<n, d>>                *)
(*   t = "NaN", "Infinity"  the numbers NaN and Infinity                   *)
(*   t = "string"    v the sequence of its characters                      *)
(*   t = "boolean"   v a BOOLEAN                                           *)
(*   t = "undefined" / "null"                                              *)
(*   t = "rgb" / "hsl"  an object literal, v the record of its fields      *)
(* A call ends in an outcome [out, err, val]: out = "ok" with the returned *)
(* value, or out = "error" with the thrown message and no value.           *)
(***************************************************************************)
EXTENDS Integers, Sequences, FiniteSets, TLC

VARIABLES clock, call, result, pc, frame

vars == <<clock, call, result, pc, frame>>

(***************************************************************************)
(* Bounds of the model                                                     *)
(***************************************************************************)
ClockStart == 1300
ClockTick == 700
MaxTicks == 2
MaxPrimeArg == 130
MaxOperand == 18
MaxElement == 8
MaxArrayLen == 3
MaxRandomUnits == 5
MaxGdcArg == 9
ChannelEdge == 2
ChannelStride == 17
HueStride == 7
PercentStride == 5
HueTolerance == 2
PercentTolerance == 1

(***************************************************************************)
(* Values and outcomes                                                     *)
(***************************************************************************)
Num(n) == [t |-> "int", v |-> n]
Str(s) == [t |-> "string", v |-> s]
Bool(b) == [t |-> "boolean", v |-> b]
NaN == [t |-> "NaN", v |-> 0]
Infinity == [t |-> "Infinity", v |-> 0]
Frac(n, d) == [t |-> "frac", v |-> <<n, d>>]
Undefined == [t |-> "undefined", v |-> 0]
Null == [t |-> "null", v |-> 0]
NoValue == [t |-> "none", v |-> 0]

typeof(x) == IF x.t \in {"int", "frac", "NaN", "Infinity"} THEN "number" ELSE x.t

Return(x) == [out |-> "ok", err |-> "", val |-> x]
Throw(msg) == [out |-> "error", err |-> msg, val |-> NoValue]

(***************************************************************************)
(* Number formatting: `${n}` and n.toString(16) of an integer n            *)
(***************************************************************************)
DigitChars == <<"0", "1", "2", "3", "4", "5", "6", "7", "8", "9",
                "a", "b", "c", "d", "e", "f">>

RECURSIVE Digits(_, _)
Digits(n, radix) ==
    IF n < radix THEN <<DigitChars[n + 1]>>
    ELSE Digits(n \div radix, radix) \o <<DigitChars[(n % radix) + 1]>>

NumberToString(n, radix) ==
    IF n < 0 THEN <<"-">> \o Digits(-n, radix) ELSE Digits(n, radix)

(* a variant that truncates toward zero *)
MathFloorTrunc(x, d) == IF x < 0 THEN -((-x) \div d) ELSE x \div d
(* Math.floor(x / d) for an integer x and a positive integer d *)
MathFloorDiv(x, d) == x \div d

(***************************************************************************)
(* discordTimestamps                                                       *)
(***************************************************************************)
RELATIVE == <<"R", "E", "L", "A", "T", "I", "V", "E">>
DATE == <<"D", "A", "T", "E">>
TIME == <<"T", "I", "M", "E">>
SHORT_TIME == <<"S", "H", "O", "R", "T", "_", "T", "I", "M", "E">>
FULL == <<"F", "U", "L", "L">>

formats == (RELATIVE :> "R") @@ (DATE :> "D") @@ (TIME :> "T")
           @@ (SHORT_TIME :> "t") @@ (FULL :> "F")

(* Object.keys(formats).includes(format) *)
FormatKeysInclude(format) == format.t = "string" /\ format.v \in DOMAIN formats

(* the default parameter value: format = 'FULL' when the argument is undefined *)
DefaultFormat(format) == IF format.t = "undefined" THEN Str(FULL) ELSE format

(* `${formats[format]}`: the code, or "undefined" for a key formats lacks *)
FormatCode(format) ==
    IF FormatKeysInclude(format) THEN <<formats[format.v]>>
    ELSE <<"u", "n", "d", "e", "f", "i", "n", "e", "d">>

(* `<t:${seconds}:${formats[format]}>` *)
TimestampString(seconds, format) ==
    <<"<", "t", ":">> \o NumberToString(seconds, 10) \o <<":">>
        \o FormatCode(format) \o <<">">>

fromDate(date, format0) ==
    LET format == DefaultFormat(format0) IN
    IF typeof(date) # "number" THEN Throw("The date must be a number")
    ELSE IF ~FormatKeysInclude(format) THEN Throw("Expected a valid format")
    ELSE Return(Str(TimestampString(MathFloorDiv(date.v, 1000), format)))

now(dateNow, format0) ==
    LET format == DefaultFormat(format0) IN
    IF ~FormatKeysInclude(format) THEN Throw("Expected a valid format")
    ELSE Return(Str(TimestampString(MathFloorDiv(dateNow, 1000), format)))

fromNow(dateNow, ms, format0) ==
    LET format == DefaultFormat(format0) IN
    IF typeof(ms) # "number" THEN Throw("The ms must be a number")
    ELSE IF ~FormatKeysInclude(format) THEN Throw("Expected a valid format")
    ELSE Return(Str(TimestampString(MathFloorDiv(dateNow + ms.v, 1000), format)))

(* the variant of src/unnamed/part_000: no check of the format *)
fromDateUnchecked(date, format0) ==
    LET format == DefaultFormat(format0) IN
    IF typeof(date) # "number" THEN Throw("The date must be a number")
    ELSE Return(Str(TimestampString(MathFloorDiv(date.v, 1000), format)))

nowUnchecked(dateNow, format0) ==
    LET format == DefaultFormat(format0) IN
    Return(Str(TimestampString(MathFloorDiv(dateNow, 1000), format)))

fromNowUnchecked(dateNow, ms, format0) ==
    LET format == DefaultFormat(format0) IN
    IF typeof(ms) # "number" THEN Throw("The ms must be a number")
    ELSE Return(Str(TimestampString(MathFloorDiv(dateNow + ms.v, 1000), format)))

(***************************************************************************)
(* numbers                                                                 *)
(***************************************************************************)
Abs(x) == IF x < 0 THEN -x ELSE x

(* a % b of two integers, b # 0: the sign of the dividend *)
jsRem(a, b) == IF a < 0 THEN -((-a) % Abs(b)) ELSE a % Abs(b)

(* x / y of two integers *)
Quotient(x, y) ==
    IF y = 0 THEN (IF x = 0 THEN NaN ELSE Infinity)
    ELSE IF x % Abs(y) = 0
         THEN Num(IF (x < 0) = (y < 0) THEN Abs(x) \div Abs(y)
                  ELSE -(Abs(x) \div Abs(y)))
         ELSE Frac(x, y)

(* numbers.some(n => typeof n !== 'number') *)
SomeNotNumber(numbers) == \E i \in 1..Len(numbers) : typeof(numbers[i]) # "number"

isEven(num) ==
    IF typeof(num) # "number" THEN Throw("The num must be a number")
    ELSE Return(Bool(jsRem(num.v, 2) = 0))

isOdd(num) ==
    IF typeof(num) # "number" THEN Throw("The num must be a number")
    ELSE Return(Bool(jsRem(num.v, 2) # 0))

(* a variant with < for <= *)
LeSqrtStrict(i, num) == i * i < num
(* i <= Math.sqrt(num), for integers i >= 0 and num >= 0 *)
LeSqrt(i, num) == i * i <= num

(* for (let i = 2; i <= Math.sqrt(num); i++) if (num % i === 0) return false *)
RECURSIVE isPrimeLoop(_, _)
isPrimeLoop(num, i) ==
    IF ~LeSqrt(i, num) THEN TRUE
    ELSE IF jsRem(num, i) = 0 THEN FALSE
    ELSE isPrimeLoop(num, i + 1)

isPrime(num) ==
    IF typeof(num) # "number" THEN Throw("The num must be a number")
    ELSE IF num.v < 2 THEN Return(Bool(FALSE))
    ELSE Return(Bool(isPrimeLoop(num.v, 2)))

(* random works on numbers that need not be integers: a number is read as a *)
(* count of 1/Unit, and Math.random() is rnd / RandomSteps                  *)
Unit == 2
RandomSteps == 8

ToUnits(x) == IF x.t = "int" THEN x.v * Unit ELSE x.v[1]
FromUnits(u) == IF u % Unit = 0 THEN Num(u \div Unit) ELSE Frac(u, Unit)

(* a variant with Math.round for Math.floor *)
randomValueRounded(min, max, rnd) ==
    FromUnits(((2 * rnd * (ToUnits(max) - ToUnits(min) + Unit) + RandomSteps * Unit)
                    \div (2 * RandomSteps * Unit)) * Unit
              + ToUnits(min))
(* Math.floor(Math.random() * (max - min + 1)) + min *)
randomValue(min, max, rnd) ==
    FromUnits(((rnd * (ToUnits(max) - ToUnits(min) + Unit)) \div (RandomSteps * Unit)) * Unit
              + ToUnits(min))

random(min, max, rnd) ==
    IF typeof(min) # "number" \/ typeof(max) # "number"
    THEN Throw("The min and max must be numbers")
    ELSE Return(randomValue(min, max, rnd))

(* numbers.reduce((a, b) => a + b) from element i on *)
RECURSIVE SumFrom(_, _, _)
SumFrom(acc, numbers, i) ==
    IF i > Len(numbers) THEN acc ELSE SumFrom(acc + numbers[i].v, numbers, i + 1)

average(numbers) ==
    IF SomeNotNumber(numbers) THEN Throw("All the arguments must be numbers")
    ELSE IF Len(numbers) = 0 THEN Throw("Reduce of empty array with no initial value")
    ELSE Return(Quotient(SumFrom(numbers[1].v, numbers, 2), Len(numbers)))

(* a variant with the arguments in the other order *)
gdcArgsSwapped(a, b) == <<Num(jsRem(a.v, b.v)), b>>
(* the arguments of the recursive call numbers.gdc(b, a % b) *)
gdcArgs(a, b) == <<b, Num(jsRem(a.v, b.v))>>

(* b === 0 ? a : numbers.gdc(b, a % b).  With NaN or Infinity for a or b and *)
(* b not 0 the recursion never reaches b === 0 (x % NaN is NaN) and ends in  *)
(* the engine's RangeError.  Fractions are no operands of gdc in this model. *)
RECURSIVE gdc(_, _)
gdc(a, b) ==
    IF typeof(a) # "number" \/ typeof(b) # "number"
    THEN Throw("The a and b must be numbers")
    ELSE IF b.t = "int" /\ b.v = 0 THEN Return(a)
    ELSE IF a.t \in {"NaN", "Infinity"} \/ b.t \in {"NaN", "Infinity"}
    THEN Throw("Maximum call stack size exceeded")
    ELSE gdc(gdcArgs(a, b)[1], gdcArgs(a, b)[2])

(* a variant that stops one element early *)
RECURSIVE gdcReduceSkipLast(_, _, _)
gdcReduceSkipLast(acc, numbers, i) ==
    IF i >= Len(numbers) THEN Return(acc)
    ELSE LET r == gdc(acc, numbers[i]) IN
         IF r.out = "error" THEN r ELSE gdcReduceSkipLast(r.val, numbers, i + 1)
(* numbers.reduce((a, b) => this.gdc(a, b)) from element i on *)
RECURSIVE gdcReduce(_, _, _)
gdcReduce(acc, numbers, i) ==
    IF i > Len(numbers) THEN Return(acc)
    ELSE LET r == gdc(acc, numbers[i]) IN
         IF r.out = "error" THEN r ELSE gdcReduce(r.val, numbers, i + 1)

(* a variant that checks the types after the reduction *)
gdcArrayCheckedLast(numbers) ==
    IF Len(numbers) = 0 THEN Throw("Reduce of empty array with no initial value")
    ELSE IF gdcReduce(numbers[1], numbers, 2).out = "error"
    THEN gdcReduce(numbers[1], numbers, 2)
    ELSE IF SomeNotNumber(numbers) THEN Throw("All the arguments must be numbers")
    ELSE gdcReduce(numbers[1], numbers, 2)

gdcArray(numbers) ==
    IF SomeNotNumber(numbers) THEN Throw("All the arguments must be numbers")
    ELSE IF Len(numbers) = 0 THEN Throw("Reduce of empty array with no initial value")
    ELSE gdcReduce(numbers[1], numbers, 2)

(* a * b and Math.abs(x) of numbers that are integers, NaN or Infinity *)
Times(a, b) ==
    IF a.t = "NaN" \/ b.t = "NaN" THEN NaN
    ELSE IF a.t = "Infinity" \/ b.t = "Infinity"
    THEN (IF (a.t = "int" /\ a.v = 0) \/ (b.t = "int" /\ b.v = 0) THEN NaN ELSE Infinity)
    ELSE Num(a.v * b.v)

(* Math.abs(p) / g *)
AbsOver(p, g) ==
    IF p.t = "NaN" \/ g.t = "NaN" THEN NaN
    ELSE IF p.t = "Infinity" THEN (IF g.t = "Infinity" THEN NaN ELSE Infinity)
    ELSE IF g.t = "Infinity" THEN Num(0)
    ELSE Quotient(Abs(p.v), g.v)

(* a variant without the division by gdc(a, b) *)
lcmNoGdc(a, b) ==
    IF typeof(a) # "number" \/ typeof(b) # "number"
    THEN Throw("The a and b must be numbers")
    ELSE Return(AbsOver(Times(a, b), Num(1)))

lcm(a, b) ==
    IF typeof(a) # "number" \/ typeof(b) # "number"
    THEN Throw("The a and b must be numbers")
    ELSE LET g == gdc(a, b) IN
         IF g.out = "error" THEN g ELSE Return(AbsOver(Times(a, b), g.val))

(* numbers.reduce((a, b) => this.lcm(a, b)) from element i on *)
RECURSIVE lcmReduce(_, _, _)
lcmReduce(acc, numbers, i) ==
    IF i > Len(numbers) THEN Return(acc)
    ELSE LET r == lcm(acc, numbers[i]) IN
         IF r.out = "error" THEN r ELSE lcmReduce(r.val, numbers, i + 1)

lcmArray(numbers) ==
    IF SomeNotNumber(numbers) THEN Throw("All the arguments must be numbers")
    ELSE IF Len(numbers) = 0 THEN Throw("Reduce of empty array with no initial value")
    ELSE lcmReduce(numbers[1], numbers, 2)

(***************************************************************************)
(* colors                                                                  *)
(***************************************************************************)
Min2(x, y) == IF x < y THEN x ELSE y
Max2(x, y) == IF x > y THEN x ELSE y

(* x << k, for |x * 2^k| < 2^31 (every channel this model passes) *)
Shl(x, k) == x * (2 ^ k)

(* s.slice(1) *)
Slice1(s) == IF Len(s) = 0 THEN s ELSE Tail(s)

(* a variant without the shift of g *)
PackRgbNoShiftG(r, g, b) == Shl(1, 24) + Shl(r, 16) + g + b
(* ((1 << 24) + (r << 16) + (g << 8) + b) *)
PackRgb(r, g, b) == Shl(1, 24) + Shl(r, 16) + Shl(g, 8) + b

rgbToHex(r, g, b) ==
    IF typeof(r) # "number" \/ typeof(g) # "number" \/ typeof(b) # "number"
    THEN Throw("The r, g and b must be numbers")
    ELSE Return(Str(<<"#">> \o Slice1(NumberToString(PackRgb(r.v, g.v, b.v), 16))))

(* hex.replace('#', ''): the first '#' removed *)
RECURSIVE RemoveFirstHash(_)
RemoveFirstHash(s) ==
    IF Len(s) = 0 THEN s
    ELSE IF Head(s) = "#" THEN Tail(s)
    ELSE <<Head(s)>> \o RemoveFirstHash(Tail(s))

UpperDigitChars == <<"0", "1", "2", "3", "4", "5", "6", "7", "8", "9",
                     "A", "B", "C", "D", "E", "F">>

IsHexDigit(c) == \E i \in 1..16 : DigitChars[i] = c \/ UpperDigitChars[i] = c
HexDigitValue(c) == (CHOOSE i \in 1..16 : DigitChars[i] = c \/ UpperDigitChars[i] = c) - 1

(* the value of the longest prefix of hex digits of s, after acc *)
RECURSIVE ParseHexDigits(_, _)
ParseHexDigits(s, acc) ==
    IF Len(s) = 0 \/ ~IsHexDigit(Head(s)) THEN acc
    ELSE ParseHexDigits(Tail(s), acc * 16 + HexDigitValue(Head(s)))

RECURSIVE SkipSpaces(_)
SkipSpaces(s) == IF Len(s) > 0 /\ Head(s) = " " THEN SkipSpaces(Tail(s)) ELSE s

(* parseInt(s, 16): leading blanks, a sign, an optional 0x, then hex digits; *)
(* NaN when no digit follows                                                 *)
parseInt16(s0) ==
    LET s1 == SkipSpaces(s0)
        neg == Len(s1) > 0 /\ Head(s1) = "-"
        s2 == IF Len(s1) > 0 /\ Head(s1) \in {"-", "+"} THEN Tail(s1) ELSE s1
        s3 == IF Len(s2) >= 2 /\ s2[1] = "0" /\ s2[2] \in {"x", "X"}
              THEN Tail(Tail(s2)) ELSE s2
    IN  IF Len(s3) = 0 \/ ~IsHexDigit(Head(s3)) THEN NaN
        ELSE Num(IF neg THEN -ParseHexDigits(s3, 0) ELSE ParseHexDigits(s3, 0))

(* (x >> k) & 255 of a number: NaN is 0 under the 32-bit conversion *)
ShrAnd255(x, k) == IF x.t = "NaN" THEN 0 ELSE (x.v \div (2 ^ k)) % 256

Rgb(r, g, b) == [t |-> "rgb", v |-> [r |-> r, g |-> g, b |-> b]]
Hsl(h, s, l) == [t |-> "hsl", v |-> [h |-> h, s |-> s, l |-> l]]

hexToRgb(hex) ==
    IF typeof(hex) # "string" THEN Throw("The hex must be a string")
    ELSE LET bigint == parseInt16(RemoveFirstHash(hex.v)) IN
         Return(Rgb(ShrAnd255(bigint, 16), ShrAnd255(bigint, 8), ShrAnd255(bigint, 0)))

(***************************************************************************)
(* Math.round(n / d), d > 0, where n / d is the exact value of a            *)
(* floating-point expression.  Off an exact half the rounding error of the  *)
(* expression is far smaller than the distance to the next half and the     *)
(* result is the exact one; on an exact half the error decides, and up      *)
(* tells which way.                                                         *)
(***************************************************************************)
IsHalf(n, d) == (2 * n + d) % (2 * d) = 0
RoundRatio(n, d, up) ==
    IF IsHalf(n, d) /\ ~up THEN ((2 * n + d) \div (2 * d)) - 1
    ELSE (2 * n + d) \div (2 * d)

(* k(n) = (n + h / 30) % 12, in thirtieths, for h >= 0 *)
HslK(n, h) == (30 * n + h) % 360

(* Math.max(Math.min(k(n) - 3, 9 - k(n), 1), -1), in thirtieths *)
HslM(n, h) == Max2(Min2(Min2(HslK(n, h) - 90, 270 - HslK(n, h)), 30), -30)

(* f(n) * 255 = (l - a * m) * 255 with s and l already divided by 100, as a *)
(* numerator over HslDen                                                    *)
HslDen == 300000
HslF255(n, h, s, l) == 255 * (3000 * l - s * Min2(l, 100 - l) * HslM(n, h))

(* the exact values whose rounding hslToRgb returns *)
HslChannels(h, s, l) == {HslF255(0, h, s, l), HslF255(8, h, s, l), HslF255(4, h, s, l)}

(* up: which way each exact half among the channels is rounded; channels   *)
(* with the same exact value come from the same floating-point operations  *)
hslToRgb(h, s, l, up) ==
    IF typeof(h) # "number" \/ typeof(s) # "number" \/ typeof(l) # "number"
    THEN Throw("The h, s and l must be numbers")
    ELSE Return(Rgb(
        RoundRatio(HslF255(0, h.v, s.v, l.v), HslDen, up[HslF255(0, h.v, s.v, l.v)]),
        RoundRatio(HslF255(8, h.v, s.v, l.v), HslDen, up[HslF255(8, h.v, s.v, l.v)]),
        RoundRatio(HslF255(4, h.v, s.v, l.v), HslDen, up[HslF255(4, h.v, s.v, l.v)])))

(* a variant with the offsets of case g and case b exchanged *)
HueNumeratorSwapped(r, g, b) ==
    LET max == Max2(Max2(r, g), b)
        delta == max - Min2(Min2(r, g), b)
    IN  IF max = r THEN 60 * jsRem(g - b, 6 * delta)
        ELSE IF max = g THEN 60 * (b - r) + 240 * delta
        ELSE 60 * (r - g) + 120 * delta
(* h * 60 before rounding, as a numerator over delta: switch (max) *)
HueNumerator(r, g, b) ==
    LET max == Max2(Max2(r, g), b)
        delta == max - Min2(Min2(r, g), b)
    IN  IF max = r THEN 60 * jsRem(g - b, 6 * delta)
        ELSE IF max = g THEN 60 * (b - r) + 120 * delta
        ELSE 60 * (r - g) + 240 * delta

(* channels in 0..255; ties: which way an exact half of h, s, l is rounded *)
rgbToHsl(r, g, b, ties) ==
    IF typeof(r) # "number" \/ typeof(g) # "number" \/ typeof(b) # "number"
    THEN Throw("The r, g and b must be numbers")
    ELSE LET max == Max2(Max2(r.v, g.v), b.v)
             min == Min2(Min2(r.v, g.v), b.v)
             delta == max - min
             l == RoundRatio(100 * (max + min), 510, ties.l)
         IN  IF delta = 0 THEN Return(Hsl(0, 0, l))
             ELSE LET s == RoundRatio(100 * delta, 255 - Abs(max + min - 255), ties.s)
                      h0 == RoundRatio(HueNumerator(r.v, g.v, b.v), delta, ties.h)
                      h == IF h0 < 0 THEN h0 + 360 ELSE h0
                  IN  Return(Hsl(h, s, l))

hexToHsl(hex, ties) ==
    IF typeof(hex) # "string" THEN Throw("The hex must be a string")
    ELSE LET rgb == hexToRgb(hex).val.v IN
         rgbToHsl(Num(rgb.r), Num(rgb.g), Num(rgb.b), ties)

hslToHex(h, s, l, up) ==
    IF typeof(h) # "number" \/ typeof(s) # "number" \/ typeof(l) # "number"
    THEN Throw("The h, s and l must be numbers")
    ELSE LET rgb == hslToRgb(h, s, l, up).val.v IN
         rgbToHex(Num(rgb.r), Num(rgb.g), Num(rgb.b))

(***************************************************************************)
(* The calls: each action is one whole call of an operation, on arguments  *)
(* drawn from a bounded set; call and result record it.  A call is made    *)
(* when none is outstanding, or on the value the last call returned; from  *)
(* is then the argument list of that last call.                            *)
(***************************************************************************)
Init ==
    /\ clock = ClockStart
    /\ call = [op |-> "none", args |-> <<>>, from |-> <<>>]
    /\ result = [out |-> "none", err |-> "", val |-> NoValue]
    /\ pc = "idle"
    /\ frame = [a |-> Num(0), b |-> Num(0), depth |-> 0]

NoCall == [op |-> "none", args |-> <<>>, from |-> <<>>]

DoCall(op, args, from, res) ==
    /\ call' = [op |-> op, args |-> args, from |-> from]
    /\ result' = res
    /\ UNCHANGED <<clock, pc, frame>>

SeqsUpTo(S, n) == UNION {[1..k -> S] : k \in 0..n}

NonNumbers == {Str(<<"a">>), Str(<<"1">>), Undefined, Null, Bool(TRUE)}
NonStrings == {Num(255), Undefined, Null, Bool(FALSE)}
SomeNumbers == {Num(0), Num(7), Num(12)}
AnyValues == SomeNumbers \cup NonNumbers
FewValues == {Num(0), Num(12), Num(18), Str(<<"a">>), Undefined}
DateValues == {Num(d) : d \in {-2001, -1000, -1, 0, 999, 1000, 1620000000}} \cup NonNumbers
OffsetValues == {Num(d) : d \in {-60000, -1301, -1, 0, 299, 60000}} \cup NonNumbers
FormatValues == {Str(k) : k \in DOMAIN formats}
                \cup {Undefined, Null, Num(1), Str(<<"X">>), Str(<<"f", "u", "l", "l">>)}
HexValues == {Str(<<"#", "f", "f", "0", "0", "a", "a">>), Str(<<"F", "F", "0", "0", "A", "A">>),
              Str(<<"#", "f", "f", "f">>), Str(<<"#", "z", "z">>), Str(<<>>),
              Str(<<"1", "2", "#", "3", "4", "5", "6">>), Str(<<"-", "1">>),
              Str(<<" ", "0", "x", "1", "0">>)}
AllTies == [h : BOOLEAN, s : BOOLEAN, l : BOOLEAN]

(* the caller is done with the value returned or the error thrown *)
Forget ==
    /\ call # NoCall
    /\ pc # "running"
    /\ call' = NoCall
    /\ result' = [out |-> "none", err |-> "", val |-> NoValue]
    /\ pc' = "idle"
    /\ frame' = [a |-> Num(0), b |-> Num(0), depth |-> 0]
    /\ UNCHANGED clock

(* Date.now() advances between calls *)
Tick ==
    /\ call = NoCall
    /\ clock < ClockStart + MaxTicks * ClockTick
    /\ clock' = clock + ClockTick
    /\ UNCHANGED <<call, result, pc, frame>>

FromDateOf(D, F) == call = NoCall /\ \E date \in D, format \in F :
    DoCall("fromDate", <<date, format>>, <<>>, fromDate(date, format))
NowOf(F) == call = NoCall /\ \E format \in F :
    DoCall("now", <<format>>, <<>>, now(clock, format))
FromNowOf(D, F) == call = NoCall /\ \E ms \in D, format \in F :
    DoCall("fromNow", <<ms, format>>, <<>>, fromNow(clock, ms, format))
FromDateUncheckedOf(D, F) == call = NoCall /\ \E date \in D, format \in F :
    DoCall("fromDateUnchecked", <<date, format>>, <<>>, fromDateUnchecked(date, format))
NowUncheckedOf(F) == call = NoCall /\ \E format \in F :
    DoCall("nowUnchecked", <<format>>, <<>>, nowUnchecked(clock, format))
FromNowUncheckedOf(D, F) == call = NoCall /\ \E ms \in D, format \in F :
    DoCall("fromNowUnchecked", <<ms, format>>, <<>>, fromNowUnchecked(clock, ms, format))

IsEvenOf(D) == call = NoCall /\ \E num \in D : DoCall("isEven", <<num>>, <<>>, isEven(num))
IsOddOf(D) == call = NoCall /\ \E num \in D : DoCall("isOdd", <<num>>, <<>>, isOdd(num))
IsPrimeOf(D) == call = NoCall /\ \E num \in D : DoCall("isPrime", <<num>>, <<>>, isPrime(num))
RandomOf(D) == call = NoCall /\ \E min \in D, max \in D, rnd \in 0..(RandomSteps - 1) :
    DoCall("random", <<min, max>>, <<>>, random(min, max, rnd))
AverageOf(A) == call = NoCall /\ \E numbers \in A : DoCall("average", numbers, <<>>, average(numbers))
GdcOf(D) == call = NoCall /\ \E a \in D, b \in D : DoCall("gdc", <<a, b>>, <<>>, gdc(a, b))
GdcArrayOf(A) == call = NoCall /\ \E numbers \in A : DoCall("gdcArray", numbers, <<>>, gdcArray(numbers))
LcmOf(D) == call = NoCall /\ \E a \in D, b \in D : DoCall("lcm", <<a, b>>, <<>>, lcm(a, b))
LcmArrayOf(A) == call = NoCall /\ \E numbers \in A : DoCall("lcmArray", numbers, <<>>, lcmArray(numbers))

RgbToHexOf(D) == call = NoCall /\ \E r \in D, g \in D, b \in D :
    DoCall("rgbToHex", <<r, g, b>>, <<>>, rgbToHex(r, g, b))
HexToRgbOf(D) == call = NoCall /\ \E hex \in D : DoCall("hexToRgb", <<hex>>, <<>>, hexToRgb(hex))
HslToRgbOf(H, P) == call = NoCall /\ \E h \in H, s \in P, l \in P :
    IF typeof(h) = "number" /\ typeof(s) = "number" /\ typeof(l) = "number"
    THEN \E up \in [HslChannels(h.v, s.v, l.v) -> BOOLEAN] :
            DoCall("hslToRgb", <<h, s, l>>, <<>>, hslToRgb(h, s, l, up))
    ELSE DoCall("hslToRgb", <<h, s, l>>, <<>>, hslToRgb(h, s, l, <<>>))
RgbToHslOf(D) == call = NoCall /\ \E r \in D, g \in D, b \in D, ties \in AllTies :
    DoCall("rgbToHsl", <<r, g, b>>, <<>>, rgbToHsl(r, g, b, ties))
HexToHslOf(D) == call = NoCall /\ \E hex \in D, ties \in AllTies :
    DoCall("hexToHsl", <<hex>>, <<>>, hexToHsl(hex, ties))
HslToHexOf(H, P) == call = NoCall /\ \E h \in H, s \in P, l \in P :
    IF typeof(h) = "number" /\ typeof(s) = "number" /\ typeof(l) = "number"
    THEN \E up \in [HslChannels(h.v, s.v, l.v) -> BOOLEAN] :
            DoCall("hslToHex", <<h, s, l>>, <<>>, hslToHex(h, s, l, up))
    ELSE DoCall("hslToHex", <<h, s, l>>, <<>>, hslToHex(h, s, l, <<>>))

(* the caller passes on what the last call returned *)
HexToRgbOfResult ==
    /\ call.op = "rgbToHex" /\ result.out = "ok"
    /\ DoCall("hexToRgb", <<result.val>>, call.args, hexToRgb(result.val))
RgbToHslOfResult ==
    /\ call.op = "hslToRgb" /\ result.out = "ok"
    /\ \E ties \in AllTies :
        LET c == result.val.v IN
        DoCall("rgbToHsl", <<Num(c.r), Num(c.g), Num(c.b)>>, call.args,
               rgbToHsl(Num(c.r), Num(c.g), Num(c.b), ties))

(***************************************************************************)
(* Spec: every operation, on arguments of every type                       *)
(***************************************************************************)
CallFromDate == FromDateOf(DateValues, FormatValues)
CallNow == NowOf(FormatValues)
CallFromNow == FromNowOf(OffsetValues, FormatValues)
CallFromDateUnchecked == FromDateUncheckedOf(DateValues, FormatValues)
CallNowUnchecked == NowUncheckedOf(FormatValues)
CallFromNowUnchecked == FromNowUncheckedOf(OffsetValues, FormatValues)
CallIsEven == IsEvenOf(AnyValues \cup {Num(-3)})
CallIsOdd == IsOddOf(AnyValues \cup {Num(-3)})
CallIsPrime == IsPrimeOf(AnyValues)
CallRandom == RandomOf(AnyValues)
CallAverage == AverageOf(SeqsUpTo(FewValues, MaxArrayLen))
CallGdc == GdcOf(AnyValues)
CallGdcArray == GdcArrayOf(SeqsUpTo(FewValues, MaxArrayLen))
CallLcm == LcmOf(AnyValues)
CallLcmArray == LcmArrayOf(SeqsUpTo(FewValues, MaxArrayLen))
CallRgbToHex == RgbToHexOf(AnyValues)
CallHexToRgb == HexToRgbOf(HexValues \cup NonStrings)
CallHslToRgb == HslToRgbOf(AnyValues, AnyValues)
CallRgbToHsl == RgbToHslOf(AnyValues)
CallHexToHsl == HexToHslOf(HexValues \cup NonStrings)
CallHslToHex == HslToHexOf(AnyValues, AnyValues)

Next ==
    \/ Tick \/ Forget
    \/ CallFromDate \/ CallNow \/ CallFromNow
    \/ CallFromDateUnchecked \/ CallNowUnchecked \/ CallFromNowUnchecked
    \/ CallIsEven \/ CallIsOdd \/ CallIsPrime \/ CallRandom \/ CallAverage
    \/ CallGdc \/ CallGdcArray \/ CallLcm \/ CallLcmArray
    \/ CallRgbToHex \/ CallHexToRgb \/ CallHslToRgb \/ CallRgbToHsl
    \/ CallHexToHsl \/ CallHslToHex

Spec == Init /\ [][Next]_vars

(***************************************************************************)
(* SpecNumbers: the numeric operations on ranges of integers (random: on   *)
(* multiples of 1/Unit)                                                    *)
(***************************************************************************)
Ints(lo, hi) == {Num(n) : n \in lo..hi}
Elements == Ints(-1, MaxElement) \cup {Num(12), Num(18), Num(24)}
Arrays == SeqsUpTo(Elements, MaxArrayLen)

PrimeOfInteger == IsPrimeOf(Ints(-3, MaxPrimeArg))
RandomOfRange == RandomOf({FromUnits(u) : u \in (-MaxRandomUnits)..MaxRandomUnits})
GdcOfIntegers == GdcOf(Ints(-MaxOperand, MaxOperand))
GdcArrayOfIntegers == GdcArrayOf(Arrays)
LcmOfIntegers == LcmOf(Ints(-MaxOperand, MaxOperand))
LcmArrayOfIntegers == LcmArrayOf(Arrays)

NextNumbers ==
    \/ Forget
    \/ PrimeOfInteger \/ RandomOfRange
    \/ GdcOfIntegers \/ GdcArrayOfIntegers \/ LcmOfIntegers \/ LcmArrayOfIntegers

SpecNumbers == Init /\ [][NextNumbers]_vars

(***************************************************************************)
(* SpecGdc: numbers.gdc on integers, one activation at a time.  frame is   *)
(* the innermost activation and depth the number of activations.           *)
(***************************************************************************)
GdcCall ==
    /\ call = NoCall /\ pc = "idle"
    /\ \E a \in Ints(-MaxGdcArg, MaxGdcArg), b \in Ints(-MaxGdcArg, MaxGdcArg) :
        /\ call' = [op |-> "gdc", args |-> <<a, b>>, from |-> <<>>]
        /\ frame' = [a |-> a, b |-> b, depth |-> 1]
    /\ pc' = "running"
    /\ UNCHANGED <<clock, result>>

(* b === 0 ? a : numbers.gdc(b, a % b) *)
GdcStep ==
    /\ pc = "running"
    /\ IF frame.b.v = 0
       THEN /\ result' = Return(frame.a)
            /\ pc' = "done"
            /\ UNCHANGED frame
       ELSE /\ frame' = [a |-> gdcArgs(frame.a, frame.b)[1],
                         b |-> gdcArgs(frame.a, frame.b)[2],
                         depth |-> frame.depth + 1]
            /\ UNCHANGED <<result, pc>>
    /\ UNCHANGED <<clock, call>>

NextGdc == GdcCall \/ GdcStep \/ Forget

(* an activation that has been entered runs: nothing suspends the thread *)
SpecGdc == Init /\ [][NextGdc]_vars /\ WF_vars(GdcStep)

(***************************************************************************)
(* SpecColors: the conversions and their round trips                       *)
(***************************************************************************)
Channels == {Num(c) : c \in {x \in -1..256 :
                x <= ChannelEdge \/ x >= 255 - ChannelEdge \/ x % ChannelStride = 0}}
Hues == {Num(h) : h \in {x \in 0..359 : x % HueStride = 0 \/ x % 60 = 0}}
Percents == {Num(q) : q \in {x \in 0..100 : x % PercentStride = 0 \/ x = 1 \/ x = 99}}

RgbToHexOfChannels == RgbToHexOf(Channels)
HslToRgbOfGrid == HslToRgbOf(Hues, Percents)

NextColors ==
    \/ Forget
    \/ RgbToHexOfChannels \/ HexToRgbOfResult
    \/ HslToRgbOfGrid \/ RgbToHslOfResult

SpecColors == Init /\ [][NextColors]_vars

(***************************************************************************)
(* Properties                                                              *)
(***************************************************************************)
IsNumberArg(i) == i <= Len(call.args) /\ typeof(call.args[i]) = "number"
IntArg(i) == i <= Len(call.args) /\ call.args[i].t = "int"
Returned == result.out = "ok"
HexDigitSet == {DigitChars[i] : i \in 1..16}

(* C1: for integer channels r, g, b in 0..255, rgbToHex returns '#' and    *)
(* exactly six hex digits, and hexToRgb of that string returns {r, g, b}.  *)
RgbHexRoundTrip ==
    /\ (call.op = "rgbToHex" /\ \A i \in 1..3 : IntArg(i) /\ call.args[i].v \in 0..255)
        => /\ Returned /\ result.val.t = "string"
           /\ Len(result.val.v) = 7
           /\ result.val.v[1] = "#"
           /\ \A i \in 2..7 : result.val.v[i] \in HexDigitSet
    /\ (call.op = "hexToRgb" /\ Len(call.from) = 3
        /\ \A i \in 1..3 : call.from[i].t = "int" /\ call.from[i].v \in 0..255)
        => /\ Returned
           /\ result.val = Rgb(call.from[1].v, call.from[2].v, call.from[3].v)

RgbHexRoundTripWitness ==
    /\ call.op = "hexToRgb"
    /\ call.from = <<Num(0), Num(255), Num(17)>>
    /\ call.args = <<Str(<<"#", "0", "0", "f", "f", "1", "1">>)>>
    /\ result = Return(Rgb(0, 255, 17))

TypeErrorOf(op) ==
    CASE op \in {"fromDate", "fromDateUnchecked"} -> "The date must be a number"
      [] op \in {"fromNow", "fromNowUnchecked"} -> "The ms must be a number"
      [] op \in {"isEven", "isOdd", "isPrime"} -> "The num must be a number"
      [] op = "random" -> "The min and max must be numbers"
      [] op \in {"average", "gdcArray", "lcmArray"} -> "All the arguments must be numbers"
      [] op \in {"gdc", "lcm"} -> "The a and b must be numbers"
      [] op \in {"rgbToHex", "rgbToHsl"} -> "The r, g and b must be numbers"
      [] op \in {"hslToRgb", "hslToHex"} -> "The h, s and l must be numbers"
      [] op \in {"hexToRgb", "hexToHsl"} -> "The hex must be a string"
      [] OTHER -> "none"

(* the arguments of the call that are typed number (string for a hex) *)
TypedArgs ==
    CASE call.op \in {"fromDate", "fromDateUnchecked", "fromNow", "fromNowUnchecked",
                      "hexToRgb", "hexToHsl"} -> {1}
      [] call.op \in {"now", "nowUnchecked", "none"} -> {}
      [] OTHER -> 1..Len(call.args)

WantedType == IF call.op \in {"hexToRgb", "hexToHsl"} THEN "string" ELSE "number"

(* C3: a call with an argument (or an element of the sequence argument)    *)
(* that is not a number, or a hex that is not a string, ends in the error  *)
(* of the type check, thrown before anything else, and returns no value.   *)
WrongTypeThrows ==
    (\E i \in TypedArgs : typeof(call.args[i]) # WantedType)
        => /\ result.out = "error"
           /\ result.err = TypeErrorOf(call.op)
           /\ result.val = NoValue

WrongTypeThrowsWitness ==
    /\ call.op = "gdcArray"
    /\ call.args = <<Str(<<"a">>)>>
    /\ result = Throw("All the arguments must be numbers")

TimestampOps == {"fromDate", "now", "fromNow",
                 "fromDateUnchecked", "nowUnchecked", "fromNowUnchecked"}
FormatArg == IF call.op \in {"now", "nowUnchecked"} THEN call.args[1] ELSE call.args[2]
KnownTag(format) ==
    /\ format.t = "string"
    /\ format.v \in {RELATIVE, DATE, TIME, SHORT_TIME, FULL}

(* C4: fromDate, now and fromNow end in the error outcome whenever the     *)
(* format argument is not one of the five tags, and no call returns a      *)
(* string whose code part is not one of R, D, T, t, F.                     *)
FormatIsValidated ==
    call.op \in TimestampOps
        => /\ (FormatArg.t # "undefined" /\ ~KnownTag(FormatArg)) => result.out = "error"
           /\ Returned =>
                LET str == result.val.v IN
                /\ Len(str) >= 3
                /\ str[Len(str) - 2] = ":"
                /\ str[Len(str) - 1] \in {"R", "D", "T", "t", "F"}

CodeOfTag(format) ==
    CASE format.t = "undefined" -> "F"
      [] format.v = RELATIVE -> "R"
      [] format.v = DATE -> "D"
      [] format.v = TIME -> "T"
      [] format.v = SHORT_TIME -> "t"
      [] format.v = FULL -> "F"

DecimalDigit(c) == CHOOSE d \in 0..9 : DigitChars[d + 1] = c
IsDecimalDigit(c) == \E d \in 0..9 : DigitChars[d + 1] = c

RECURSIVE DecimalNatural(_)
DecimalNatural(str) ==
    IF Len(str) = 0 THEN 0
    ELSE 10 * DecimalNatural(SubSeq(str, 1, Len(str) - 1)) + DecimalDigit(str[Len(str)])

(* str is a decimal numeral as `${n}` writes an integer: an optional minus *)
(* sign, then digits without a leading zero, and no "-0"                  *)
NumeralDigits(str) == IF Len(str) > 0 /\ str[1] = "-" THEN Tail(str) ELSE str
IsNumeral(str) ==
    /\ Len(NumeralDigits(str)) > 0
    /\ \A i \in 1..Len(NumeralDigits(str)) : IsDecimalDigit(NumeralDigits(str)[i])
    /\ (Len(NumeralDigits(str)) > 1 => NumeralDigits(str)[1] # "0")
    /\ (NumeralDigits(str) # str => NumeralDigits(str) # <<"0">>)
NumeralValue(str) ==
    IF NumeralDigits(str) # str THEN -DecimalNatural(NumeralDigits(str))
    ELSE DecimalNatural(str)

(* str is '<t:' + floor(ms / 1000) + ':' + code + '>' *)
IsTimestampOf(str, ms, code) ==
    /\ Len(str) >= 7
    /\ SubSeq(str, 1, 3) = <<"<", "t", ":">>
    /\ SubSeq(str, Len(str) - 2, Len(str)) = <<":", code, ">">>
    /\ LET numeral == SubSeq(str, 4, Len(str) - 3) IN
       /\ IsNumeral(numeral)
       /\ 1000 * NumeralValue(numeral) <= ms
       /\ ms < 1000 * (NumeralValue(numeral) + 1)

(* the milliseconds the call converts: the date, the clock reading, or the *)
(* clock reading plus the offset                                           *)
MillisOfCall ==
    CASE call.op \in {"fromDate", "fromDateUnchecked"} -> call.args[1].v
      [] call.op \in {"now", "nowUnchecked"} -> clock
      [] call.op \in {"fromNow", "fromNowUnchecked"} -> clock + call.args[1].v

(* C5: for every numeric date (negative ones too) and each of the five     *)
(* tags, or no tag (FULL), fromDate returns '<t:' + floor(date / 1000) +   *)
(* ':' + code + '>'; now and fromNow return what fromDate returns for the  *)
(* clock reading and for the clock reading plus ms.                        *)
TimestampIsExact ==
    (/\ call.op \in TimestampOps
     /\ (call.op \in {"now", "nowUnchecked"} \/ IsNumberArg(1))
     /\ (FormatArg.t = "undefined" \/ KnownTag(FormatArg)))
        => /\ Returned /\ result.val.t = "string"
           /\ IsTimestampOf(result.val.v, MillisOfCall, CodeOfTag(FormatArg))
           /\ result = fromDate(Num(MillisOfCall), FormatArg)

TimestampIsExactWitness ==
    /\ call.op = "fromNow"
    /\ clock = ClockStart + ClockTick
    /\ call.args = <<Num(-60000), Str(SHORT_TIME)>>
    /\ result = Return(Str(<<"<", "t", ":", "-", "5", "8", ":", "t", ">">>))

IsPrimeNumber(n) == n >= 2 /\ \A d \in 2..(n - 1) : n % d # 0

(* C6: for every integer num, isPrime(num) is true exactly when num is a   *)
(* prime number, and false for every num < 2; perfect squares included.    *)
IsPrimeIsExact ==
    (call.op = "isPrime" /\ IntArg(1))
        => /\ Returned
           /\ result.val = Bool(IsPrimeNumber(call.args[1].v))

IsPrimeIsExactWitness ==
    /\ call.op = "isPrime"
    /\ call.args = <<Num(121)>>
    /\ result = Return(Bool(FALSE))

AllPositive == \A i \in 1..Len(call.args) : call.args[i].t = "int" /\ call.args[i].v > 0
ArgSet == {call.args[i].v : i \in 1..Len(call.args)}
Divides(d, n) == n % d = 0

(* d is the greatest common divisor of the positive integers in S *)
IsGcdOf(d, S) ==
    /\ d > 0
    /\ \A n \in S : Divides(d, n)
    /\ \A e \in 1..(CHOOSE n \in S : TRUE) : (\A n \in S : Divides(e, n)) => e <= d

(* m is the least common multiple of the positive integers in S *)
IsLcmOf(m, S) ==
    /\ m > 0
    /\ \A n \in S : Divides(n, m)
    /\ \A k \in 1..(m - 1) : ~(\A n \in S : Divides(n, k))

(* the left-to-right pairwise reduction of seq through gdc *)
RECURSIVE PairwiseGdc(_)
PairwiseGdc(seq) ==
    IF Len(seq) = 1 THEN seq[1]
    ELSE gdc(PairwiseGdc(SubSeq(seq, 1, Len(seq) - 1)), seq[Len(seq)]).val

(* C7: for a non-empty sequence of positive integers gdcArray(seq) is the  *)
(* left-to-right pairwise reduction through gdc and the greatest common    *)
(* divisor of the elements; gdc(a, b) is the greatest common divisor of    *)
(* positive a, b, whatever their order.                                    *)
GdcIsGreatestCommonDivisor ==
    /\ (call.op = "gdcArray" /\ Len(call.args) > 0 /\ AllPositive)
        => /\ Returned /\ result.val.t = "int"
           /\ result.val = PairwiseGdc(call.args)
           /\ IsGcdOf(result.val.v, ArgSet)
    /\ (call.op = "gdc" /\ AllPositive)
        => /\ Returned /\ result.val.t = "int"
           /\ IsGcdOf(result.val.v, ArgSet)
           /\ result = gdc(call.args[2], call.args[1])

GdcIsGreatestCommonDivisorWitness ==
    /\ call.op = "gdcArray"
    /\ call.args = <<Num(12), Num(18), Num(24)>>
    /\ result = Return(Num(6))

RECURSIVE PairwiseLcm(_)
PairwiseLcm(seq) ==
    IF Len(seq) = 1 THEN seq[1]
    ELSE lcm(PairwiseLcm(SubSeq(seq, 1, Len(seq) - 1)), seq[Len(seq)]).val

(* C8: for positive integers a, b, lcm(a, b) = abs(a * b) / gdc(a, b) is   *)
(* their least common multiple, and for a non-empty sequence of positive   *)
(* integers lcmArray, the left-to-right reduction through lcm, is the      *)
(* least common multiple of the elements.                                  *)
LcmIsLeastCommonMultiple ==
    /\ (call.op = "lcm" /\ AllPositive)
        => /\ Returned /\ result.val.t = "int"
           /\ result.val.v * gdc(call.args[1], call.args[2]).val.v
                = Abs(call.args[1].v * call.args[2].v)
           /\ IsLcmOf(result.val.v, ArgSet)
    /\ (call.op = "lcmArray" /\ Len(call.args) > 0 /\ AllPositive)
        => /\ Returned /\ result.val.t = "int"
           /\ result.val = PairwiseLcm(call.args)
           /\ IsLcmOf(result.val.v, ArgSet)

LcmIsLeastCommonMultipleWitness ==
    /\ call.op = "lcmArray"
    /\ call.args = <<Num(12), Num(18), Num(24)>>
    /\ result = Return(Num(72))

HslRoundTripCase ==
    /\ call.op = "rgbToHsl" /\ Len(call.from) = 3
    /\ \A i \in 1..3 : call.from[i].t = "int"
    /\ call.from[1].v \in 0..359
    /\ call.from[2].v \in 0..100 /\ call.from[3].v \in 0..100

(* the distance of two hues around the circle of 360 degrees *)
HueDistance(x, y) == Min2((x - y) % 360, (y - x) % 360)

(* C9, as stated: for h in [0,360) and s, l in [0,100], rgbToHsl of the    *)
(* channels hslToRgb(h, s, l) returns is (h, s, l) within the rounding     *)
(* tolerance on each component.                                            *)
HslRoundTripAllComponents ==
    HslRoundTripCase
        => /\ Returned
           /\ HueDistance(result.val.v.h, call.from[1].v) <= HueTolerance
           /\ Abs(result.val.v.s - call.from[2].v) <= PercentTolerance
           /\ Abs(result.val.v.l - call.from[3].v) <= PercentTolerance

(* C9, amended: for integers h in [0,360) and s, l in [0,100], rgbToHsl of *)
(* the channels hslToRgb(h, s, l) returns has l within the tolerance; h    *)
(* and s come back within the tolerance when s >= 20 and 20 <= l <= 80,    *)
(* and come back as 0 and 0 when s = 0 or l is 0 or 100.                   *)
HslRoundTripLightness ==
    HslRoundTripCase
        => /\ Returned
           /\ Abs(result.val.v.l - call.from[3].v) <= PercentTolerance
           /\ (call.from[2].v >= 20 /\ call.from[3].v \in 20..80)
                => /\ HueDistance(result.val.v.h, call.from[1].v) <= HueTolerance
                   /\ Abs(result.val.v.s - call.from[2].v) <= PercentTolerance
           /\ (call.from[2].v = 0 \/ call.from[3].v \in {0, 100})
                => result.val.v.h = 0 /\ result.val.v.s = 0

HslRoundTripWitness ==
    /\ call.op = "rgbToHsl"
    /\ call.from = <<Num(210), Num(50), Num(40)>>
    /\ call.args = <<Num(51), Num(102), Num(153)>>
    /\ result = Return(Hsl(210, 50, 40))

(* the greatest common divisor of |a| and |b|; 0 for 0 and 0 *)
GcdOfAbs(a, b) ==
    IF a = 0 /\ b = 0 THEN 0
    ELSE CHOOSE d \in 1..Max2(Abs(a), Abs(b)) :
            /\ Divides(d, Abs(a)) /\ Divides(d, Abs(b))
            /\ \A e \in 1..Max2(Abs(a), Abs(b)) :
                    (Divides(e, Abs(a)) /\ Divides(e, Abs(b))) => e <= d

(* C10: for all integers a, b (zero and negative too) the recursion of     *)
(* gdc(a, b) terminates: each recursive call has a second argument of      *)
(* strictly smaller absolute value, until it is 0, and the absolute value  *)
(* of what is returned is the greatest common divisor of |a| and |b|.      *)
GdcTerminates ==
    /\ [][(pc = "running" /\ pc' = "running")
            => Abs(frame'.b.v) < Abs(frame.b.v)]_vars
    /\ [](pc = "done"
            => /\ Returned /\ result.val.t = "int" /\ frame.b.v = 0
               /\ Abs(result.val.v) = GcdOfAbs(call.args[1].v, call.args[2].v))
    /\ [](pc = "running" => <>(pc = "done"))

GdcTerminatesWitness ==
    /\ pc = "done"
    /\ call.args = <<Num(-9), Num(6)>>
    /\ frame.depth = 3
    /\ result = Return(Num(-3))

====
